---- MODULE Spec2Model ----
(***************************************************************************)
(* Model of internal/cmd/db.go of turso-cli: the create, replicate, list,  *)
(* destroy and name-completion commands, the region resolver and the local *)
(* name cache.  One CLI invocation is a process whose position is inv[p].pc *)
(* and whose side effects are recorded, in order, in inv[p].log.           *)
(***************************************************************************)
EXTENDS Integers, Sequences, FiniteSets, TLC

\* ------------------------------------------------------------------ bounds
MaxId == 2      \* identifiers the remote may hand out in one behaviour
MaxDbs == 2     \* records the remote catalog may hold

\* ------------------------------------------------------------- value sets
Procs == {1, 2}
Names == {"a", "b"}
NameArgs == Names \cup {""}
Catalog == {"ams", "fra"}
RegionArgs == {"", "fra", "xyz"}
IdOf == <<"i-1", "i-2", "i-3", "i-4", "i-5", "i-6", "i-7", "i-8">>
HostOf == <<"h-1", "h-2", "h-3", "h-4", "h-5", "h-6", "h-7", "h-8">>
PassOf == <<"p-1", "p-2", "p-3", "p-4", "p-5", "p-6", "p-7", "p-8">>

\* The fallback region ID to use if we are unable to probe the closest region.
FallbackRegionId == "ams"

\* turso.Database{} and its fields used by this file
NoDatabase == [Name |-> "", Type |-> "", ID |-> "", Hostname |-> ""]
Database(name, ty, n) == [Name |-> name, Type |-> ty, ID |-> IdOf[n], Hostname |-> HostOf[n]]

\* settings.DatabaseSettings
NoSettings == [Name |-> "", Host |-> "", Username |-> "", Password |-> ""]

VARIABLES
    remote,       \* the remote catalog: sequence of Database records, in List order
    nextId,       \* index of the next identifier the remote hands out
    databases,    \* local settings: map from remote ID to DatabaseSettings
    nameCache,    \* local settings: the name cache slot [present, names]
    lastListing,  \* history: primary names the remote held at this client's last fetch or mutation
    inv           \* per invocation: position, inputs, locals, outcome and effect log

vars == <<remote, nextId, databases, nameCache, lastListing, inv>>

\* ---------------------------------------------------------- pure helpers
extractDatabaseNamesUnfiltered(dbs) == [i \in 1..Len(dbs) |-> dbs[i].Name]

RECURSIVE extractDatabaseNames(_)
extractDatabaseNames(dbs) ==
    IF dbs = <<>> THEN <<>>
    ELSE LET database == Head(dbs)
             rest == extractDatabaseNames(Tail(dbs))
         IN IF database.Type = "primary" THEN <<database.Name>> \o rest ELSE rest

\* outcome of one turso.GetRegions call: reachable or not, and the ids it lists
RegionFetches == {[ok |-> TRUE, ids |-> Catalog], [ok |-> TRUE, ids |-> {}], [ok |-> FALSE, ids |-> {}]}

getRegionIds(fetch) == IF ~fetch.ok THEN {} ELSE fetch.ids

isValidRegionStrict(fetch, region) == region \in getRegionIds(fetch)

isValidRegion(fetch, region) ==
    LET regionIds == getRegionIds(fetch)
    IN IF regionIds = {} THEN TRUE ELSE region \in regionIds

\* outcome of the GET to the region probe: transport error, undecodable body,
\* or a decoded Region whose Server is "" when the field is missing
Probes == {[kind |-> "neterr", server |-> ""], [kind |-> "badjson", server |-> ""]}
          \cup {[kind |-> "ok", server |-> s] : s \in {"", "fra", "xyz"}}

probeClosestRegionUnvalidated(probe, fetch) ==
    IF probe.kind = "neterr" THEN [region |-> FallbackRegionId, warned |-> TRUE]
    ELSE IF probe.kind = "badjson" THEN [region |-> FallbackRegionId, warned |-> FALSE]
    ELSE [region |-> probe.server, warned |-> FALSE]

\* [region, warned]: the region returned and whether FallbackWarning was printed
probeClosestRegion(probe, fetch) ==
    IF probe.kind = "neterr" THEN [region |-> FallbackRegionId, warned |-> TRUE]
    ELSE IF probe.kind = "badjson" THEN [region |-> FallbackRegionId, warned |-> FALSE]
    ELSE IF isValidRegion(fetch, probe.server) THEN [region |-> probe.server, warned |-> FALSE]
    ELSE [region |-> FallbackRegionId, warned |-> FALSE]

fetchDatabaseNames(listOk, dbs) == IF ~listOk THEN <<>> ELSE extractDatabaseNames(dbs)

\* the first record of the listing with that name, or the zero Database
RECURSIVE FindByName(_, _)
FindByName(dbs, name) ==
    IF dbs = <<>> THEN NoDatabase
    ELSE IF Head(dbs).Name = name THEN Head(dbs)
    ELSE FindByName(Tail(dbs), name)

getDatabaseWithoutNotFound(listOk, dbs, name) ==
    IF ~listOk THEN [ok |-> FALSE, db |-> NoDatabase] ELSE [ok |-> TRUE, db |-> FindByName(dbs, name)]

\* [ok, db]: getDatabase over one List outcome
getDatabase(listOk, dbs, name) ==
    IF ~listOk THEN [ok |-> FALSE, db |-> NoDatabase]
    ELSE LET found == FindByName(dbs, name)
         IN IF found = NoDatabase THEN [ok |-> FALSE, db |-> NoDatabase]
            ELSE [ok |-> TRUE, db |-> found]

\* ------------------------------------------------- local settings store
AbsentCache == [present |-> FALSE, names |-> <<>>]
SetDbNamesCache(names) == [present |-> TRUE, names |-> names]
InvalidateDbNamesCache == AbsentCache
AddDatabase(dbmap, id, s) == [k \in DOMAIN dbmap \cup {id} |-> IF k = id THEN s ELSE dbmap[k]]
\* an identifier without an entry reads as the zero settings
GetDatabaseSettings(dbmap, id) == IF id \in DOMAIN dbmap THEN dbmap[id] ELSE NoSettings

\* ------------------------------------------------------- remote catalog
RemoteCreate(dbs, name, n) == Append(dbs, Database(name, "primary", n))
RemoteReplica(dbs, name, n) == Append(dbs, Database(name, "replica", n))
RemoteDestroy(dbs, name) == SelectSeq(dbs, LAMBDA d : d.Name # name)
HasName(dbs, name) == \E i \in 1..Len(dbs) : dbs[i].Name = name

\* ------------------------------------------- replicate response bodies
\* a JSON member read as a string: present as a string, absent, or of another type
JStr(v) == [t |-> "str", v |-> v]
JMissing == [t |-> "missing", v |-> ""]
JNum == [t |-> "num", v |-> ""]
\* a JSON member read as an object with the members replicateCmd looks at
JObj(dbid, hostname, uuid) == [t |-> "obj", DbId |-> dbid, Hostname |-> hostname, uuid |-> uuid]
JNoObj == [t |-> "missing", DbId |-> JMissing, Hostname |-> JMissing, uuid |-> JMissing]
JStrObj == [t |-> "str", DbId |-> JMissing, Hostname |-> JMissing, uuid |-> JMissing]

NoResponse == [body |-> "none", database |-> JNoObj, instance |-> JNoObj,
               username |-> JMissing, password |-> JMissing]

\* the body the remote sends for a replica numbered n of a source of that type
GoodResponse(ty, n) ==
    IF ty = "logical"
    THEN [body |-> "object", database |-> JNoObj, instance |-> JObj(JMissing, JMissing, JStr(IdOf[n])),
          username |-> JStr("u"), password |-> JStr(PassOf[n])]
    ELSE [body |-> "object", database |-> JObj(JStr(IdOf[n]), JStr(HostOf[n]), JMissing), instance |-> JNoObj,
          username |-> JStr("u"), password |-> JStr(PassOf[n])]

\* the good body and the bodies that differ from it in one place
Responses(ty, n) ==
    LET g == GoodResponse(ty, n)
        o == IF ty = "logical" THEN g.instance ELSE g.database
        WithObj(x) == IF ty = "logical" THEN [g EXCEPT !.instance = x] ELSE [g EXCEPT !.database = x]
    IN {g, [g EXCEPT !.body = "invalid"], [g EXCEPT !.body = "array"],
        [g EXCEPT !.username = JMissing], [g EXCEPT !.username = JNum],
        [g EXCEPT !.password = JMissing], [g EXCEPT !.password = JNum],
        WithObj(JNoObj), WithObj(JStrObj),
        WithObj([o EXCEPT !.uuid = JMissing, !.DbId = JMissing]),
        WithObj([o EXCEPT !.uuid = JNum, !.DbId = JNum]),
        WithObj([o EXCEPT !.Hostname = JMissing]), WithObj([o EXCEPT !.Hostname = JNum])}

\* lines 432-453: json.Unmarshal, then the unchecked type assertions in order
ParseReplicateResponse(original, resp) ==
    LET m == IF original.Type = "logical" THEN resp.instance ELSE resp.database
        idField == IF original.Type = "logical" THEN m.uuid ELSE m.DbId
        fail(out) == [out |-> out, dbId |-> "", dbHost |-> "", username |-> "", password |-> ""]
    IN IF resp.body = "invalid" THEN fail("MalformedResponse")
       ELSE IF resp.body # "object" THEN fail("panic")
       ELSE IF m.t # "obj" THEN fail("panic")
       ELSE IF resp.username.t # "str" THEN fail("panic")
       ELSE IF resp.password.t # "str" THEN fail("panic")
       ELSE IF idField.t # "str" THEN fail("panic")
       ELSE IF original.Type # "logical" /\ m.Hostname.t # "str" THEN fail("panic")
       ELSE [out |-> "none", dbId |-> idField.v,
             dbHost |-> IF original.Type = "logical" THEN original.Hostname ELSE m.Hostname.v,
             username |-> resp.username.v, password |-> resp.password.v]

ReplicateUrlAlwaysTopLevel(original, name) == <<"v1", "databases">>

\* lines 398-401: the endpoint of the replication request
ReplicateUrl(original, name) ==
    IF original.Type = "logical" THEN <<"v2", "databases", name, "instances">> ELSE <<"v1", "databases">>

\* --------------------------------------------------------- invocations
Ev(ev, ok, arg) == [ev |-> ev, ok |-> ok, arg |-> arg]


Fresh(cmd) ==
    [cmd |-> cmd, pc |-> "done", out |-> "none", errName |-> "", name |-> "", region |-> "",
     requested |-> "", fetch |-> [ok |-> FALSE, ids |-> {}], probe |-> [kind |-> "none", server |-> ""],
     warned |-> FALSE, original |-> NoDatabase, url |-> <<>>,
     res |-> NoDatabase, dbSettings |-> NoSettings, key |-> "", password |-> "", resp |-> NoResponse,
     status |-> 0, errStatus |-> 0, readOk |-> TRUE, dbs |-> <<>>, names |-> <<>>, mode |-> "", yesFlag |-> FALSE,
     instanceFlag |-> "", regionFlag |-> "", prompt |-> "none", log |-> <<>>,
     pre |-> [databases |-> databases, nameCache |-> nameCache, primaries |-> extractDatabaseNames(remote)]]

Idle(p) == inv[p].pc = "done"

Set(p, r) == inv' = [inv EXCEPT ![p] = r]

InitCatalogs == {<<Database("a", "primary", 1)>>, <<Database("b", "logical", 1)>>}

InitSettings(dbs) ==
    [k \in {dbs[i].ID : i \in 1..Len(dbs)} |->
        LET i == CHOOSE j \in 1..Len(dbs) : dbs[j].ID = k
        IN [Name |-> dbs[i].Name, Host |-> dbs[i].Hostname, Username |-> "admin", Password |-> PassOf[i]]]

Init ==
    /\ remote \in InitCatalogs
    /\ nextId = Len(remote) + 1
    /\ databases = InitSettings(remote)
    /\ nameCache = AbsentCache
    /\ lastListing = extractDatabaseNames(remote)
    /\ inv = [p \in Procs |-> [Fresh("none") EXCEPT !.pre = [databases |-> InitSettings(remote),
                                   nameCache |-> AbsentCache, primaries |-> extractDatabaseNames(remote)]]]

\* ------------------------------------------------------------- createCmd
\* settings.ReadSettings, the name argument or a generated name
CreateStart(p) ==
    /\ Idle(p)
    /\ \E readOk \in BOOLEAN :
        IF ~readOk THEN Set(p, [Fresh("create") EXCEPT !.out = "LocalSettingsUnreadable"])
        ELSE \E arg \in NameArgs, rngOk \in BOOLEAN :
            IF arg = "" /\ ~rngOk THEN Set(p, [Fresh("create") EXCEPT !.out = "NameGenerationFailed"])
            ELSE \E gen \in IF arg = "" THEN Names ELSE {arg}, requested \in RegionArgs :
                    Set(p, [Fresh("create") EXCEPT !.pc = "region", !.name = gen, !.requested = requested])
    /\ UNCHANGED <<remote, nextId, databases, nameCache, lastListing>>

\* where createCmd goes after resolving the region: [out, region, warned]
ResolveRegion(requested, fetch, probe) ==
    IF requested # "" /\ ~isValidRegion(fetch, requested)
    THEN [out |-> "InvalidRegion", region |-> requested, warned |-> FALSE]
    ELSE IF requested = ""
    THEN LET r == probeClosestRegion(probe, fetch)
         IN [out |-> "none", region |-> r.region, warned |-> r.warned]
    ELSE [out |-> "none", region |-> requested, warned |-> FALSE]

CreateRegion(p) ==
    /\ inv[p].pc = "region" /\ inv[p].cmd = "create"
    /\ \E fetch \in RegionFetches, probe \in IF inv[p].requested = "" THEN Probes ELSE {[kind |-> "none", server |-> ""]} :
        LET r == ResolveRegion(inv[p].requested, fetch, probe)
            me == [inv[p] EXCEPT !.region = r.region, !.warned = r.warned, !.fetch = fetch, !.probe = probe]
        IN IF r.out # "none" THEN Set(p, [me EXCEPT !.pc = "done", !.out = r.out])
           ELSE Set(p, [me EXCEPT !.pc = "dbCreate"])
    /\ UNCHANGED <<remote, nextId, databases, nameCache, lastListing>>

\* the settings createCmd derives from the create response
CreateSettings(res, user, pass) == [Name |-> res.Name, Host |-> res.Hostname, Username |-> user, Password |-> pass]

AfterDatabaseCreateIgnoringError(ok) == "instCreate"

AfterDatabaseCreateRetrying(ok) == IF ok THEN "instCreate" ELSE "dbCreate"

\* position after client.Databases.Create returned
AfterDatabaseCreate(ok) == IF ok THEN "instCreate" ELSE "done"

\* client.Databases.Create(name, region, image); the image tag is handed to the
\* remote untouched and is not part of the state
CreateDatabase(p) ==
    /\ inv[p].pc = "dbCreate"
    /\ \/ /\ ~HasName(remote, inv[p].name) /\ nextId <= MaxId /\ Len(remote) < MaxDbs
          /\ remote' = RemoteCreate(remote, inv[p].name, nextId)
          /\ nextId' = nextId + 1
          /\ lastListing' = extractDatabaseNames(remote')
          /\ Set(p, [inv[p] EXCEPT !.pc = AfterDatabaseCreate(TRUE),
                                   !.res = Database(inv[p].name, "primary", nextId),
                                   !.dbSettings = CreateSettings(Database(inv[p].name, "primary", nextId),
                                                                 "admin", PassOf[nextId]),
                                   !.log = Append(@, Ev("dbCreate", TRUE, inv[p].region))])
       \/ /\ Set(p, [inv[p] EXCEPT !.pc = AfterDatabaseCreate(FALSE), !.out = "RemoteRequestFailed",
                                   !.errName = inv[p].name,
                                   !.log = Append(@, Ev("dbCreate", FALSE, inv[p].region))])
          /\ UNCHANGED <<remote, nextId, lastListing>>
    /\ UNCHANGED <<databases, nameCache>>

AfterInstanceCreateIgnoringError(ok) == "addDatabase"

\* position after client.Instances.Create returned
AfterInstanceCreate(ok) == IF ok THEN "addDatabase" ELSE "done"

\* client.Instances.Create(name, res.Password, region, image)
CreateInstance(p) ==
    /\ inv[p].pc = "instCreate"
    /\ \E ok \in BOOLEAN :
        Set(p, [inv[p] EXCEPT !.pc = AfterInstanceCreate(ok),
                              !.out = IF ok THEN "none" ELSE "InstanceCreationFailed",
                              !.errName = IF ok THEN "" ELSE inv[p].name,
                              !.log = Append(@, Ev("instCreate", ok, inv[p].region))])
    /\ UNCHANGED <<remote, nextId, databases, nameCache, lastListing>>

\* config.AddDatabase(res.Database.ID, &dbSettings)
CreateAddDatabase(p) ==
    /\ inv[p].pc = "addDatabase" /\ inv[p].cmd = "create"
    /\ databases' = AddDatabase(databases, inv[p].res.ID, inv[p].dbSettings)
    /\ Set(p, [inv[p] EXCEPT !.pc = "invalidate", !.key = inv[p].res.ID,
                             !.log = Append(@, Ev("addDatabase", TRUE, inv[p].res.ID))])
    /\ UNCHANGED <<remote, nextId, nameCache, lastListing>>

\* config.InvalidateDbNamesCache(); return nil
CreateInvalidate(p) ==
    /\ inv[p].pc = "invalidate" /\ inv[p].cmd = "create"
    /\ nameCache' = InvalidateDbNamesCache
    /\ Set(p, [inv[p] EXCEPT !.pc = "done", !.out = "ok",
                             !.log = Append(@, Ev("invalidate", TRUE, ""))])
    /\ UNCHANGED <<remote, nextId, databases, lastListing>>

\* ---------------------------------------------------------- replicateCmd
Tokens == {"tok", "", "unreadable"}

\* lines 365-390: settings, arguments, region validation, access token
ReplicateStart(p) ==
    /\ Idle(p)
    /\ \E readOk \in BOOLEAN :
        IF ~readOk THEN Set(p, [Fresh("replicate") EXCEPT !.out = "LocalSettingsUnreadable"])
        ELSE \E name \in NameArgs, region \in RegionArgs :
            LET f == [Fresh("replicate") EXCEPT !.name = name, !.requested = region, !.region = region]
            IN IF name = "" THEN Set(p, [f EXCEPT !.out = "MissingName"])
               ELSE IF region = "" THEN Set(p, [f EXCEPT !.out = "MissingRegion"])
               ELSE \E fetch \in RegionFetches :
                    IF ~isValidRegion(fetch, region)
                    THEN Set(p, [f EXCEPT !.out = "InvalidRegion", !.fetch = fetch])
                    ELSE \E token \in Tokens :
                        IF token # "tok"
                        THEN Set(p, [f EXCEPT !.out = "NotAuthenticatedOrNotFound", !.fetch = fetch])
                        ELSE Set(p, [f EXCEPT !.pc = "lookup", !.fetch = fetch])
    /\ UNCHANGED <<remote, nextId, databases, nameCache, lastListing>>

ReplicateLookupTrustingCache(p) ==
    /\ inv[p].pc = "lookup"
    /\ \E listOk \in BOOLEAN :
        LET live == getDatabase(listOk, remote, inv[p].name)
            cached == ~nameCache.present
                      \/ \E i \in 1..Len(nameCache.names) : nameCache.names[i] = inv[p].name
            got == IF cached THEN live ELSE [ok |-> FALSE, db |-> NoDatabase]
            me == [inv[p] EXCEPT !.log = Append(@, Ev("list", listOk, ""))]
        IN /\ IF ~got.ok THEN Set(p, [me EXCEPT !.pc = "done", !.out = "NotAuthenticatedOrNotFound"])
              ELSE Set(p, [me EXCEPT !.pc = "post", !.original = got.db,
                                     !.url = ReplicateUrl(got.db, inv[p].name),
                                     !.password = GetDatabaseSettings(databases, got.db.ID).Password])
           /\ lastListing' = IF listOk THEN extractDatabaseNames(remote) ELSE lastListing
    /\ UNCHANGED <<remote, nextId, databases, nameCache>>

\* lines 393-407: the live lookup of the source, the endpoint and the request password
ReplicateLookup(p) ==
    /\ inv[p].pc = "lookup"
    /\ \E listOk \in BOOLEAN :
        LET got == getDatabase(listOk, remote, inv[p].name)
            me == [inv[p] EXCEPT !.log = Append(@, Ev("list", listOk, ""))]
        IN /\ IF ~got.ok THEN Set(p, [me EXCEPT !.pc = "done", !.out = "NotAuthenticatedOrNotFound"])
              ELSE Set(p, [me EXCEPT !.pc = "post", !.original = got.db,
                                     !.url = ReplicateUrl(got.db, inv[p].name),
                                     !.password = GetDatabaseSettings(databases, got.db.ID).Password])
           /\ lastListing' = IF listOk THEN extractDatabaseNames(remote) ELSE lastListing
    /\ UNCHANGED <<remote, nextId, databases, nameCache>>

ReplicateSettingsDroppingPassword(parsed) == [Name |-> "", Host |-> parsed.dbHost, Username |-> parsed.username, Password |-> ""]

\* lines 455-459: the settings replicateCmd derives from the parsed response
ReplicateSettings(parsed) == [Name |-> "", Host |-> parsed.dbHost, Username |-> parsed.username, Password |-> parsed.password]

\* the statuses the control plane answers with
Statuses == {200, 201, 500}

StatusFailsNever(status) == FALSE

\* lines 424-426: resp.StatusCode != http.StatusOK
StatusFails(status) == status # 200

\* lines 419-453: the POST, the status check and the parse of the body; the
\* remote has made the replica exactly when it answers 200
ReplicatePost(p) ==
    /\ inv[p].pc = "post"
    /\ \/ /\ Set(p, [inv[p] EXCEPT !.pc = "done", !.out = "TransportError",
                                   !.log = Append(@, Ev("post", FALSE, inv[p].url[1]))])
          /\ UNCHANGED <<remote, nextId, lastListing>>
       \/ \E status \in Statuses :
            LET made == status = 200
            IN /\ made => /\ nextId <= MaxId
                          /\ inv[p].original.Type = "logical" \/ Len(remote) < MaxDbs
               /\ remote' = IF made /\ inv[p].original.Type # "logical"
                            THEN RemoteReplica(remote, inv[p].name, nextId) ELSE remote
               /\ nextId' = IF made THEN nextId + 1 ELSE nextId
               /\ lastListing' = IF made THEN extractDatabaseNames(remote') ELSE lastListing
               /\ IF StatusFails(status)
                  THEN Set(p, [inv[p] EXCEPT !.pc = "done", !.out = "RemoteRequestFailed", !.status = status,
                                             !.errStatus = status,
                                             !.log = Append(@, Ev("post", FALSE, inv[p].url[1]))])
                  ELSE \E resp \in Responses(inv[p].original.Type, nextId) :
                        LET parsed == ParseReplicateResponse(inv[p].original, resp)
                            me == [inv[p] EXCEPT !.status = status, !.resp = resp,
                                                 !.log = Append(@, Ev("post", TRUE, inv[p].url[1]))]
                        IN IF parsed.out # "none" THEN Set(p, [me EXCEPT !.pc = "done", !.out = parsed.out])
                           ELSE Set(p, [me EXCEPT !.pc = "addDatabase", !.key = parsed.dbId,
                                                  !.dbSettings = ReplicateSettings(parsed)])
    /\ UNCHANGED <<databases, nameCache>>

\* config.AddDatabase(dbId, dbSettings)
ReplicateAddDatabase(p) ==
    /\ inv[p].pc = "addDatabase" /\ inv[p].cmd = "replicate"
    /\ databases' = AddDatabase(databases, inv[p].key, inv[p].dbSettings)
    /\ Set(p, [inv[p] EXCEPT !.pc = "invalidate", !.log = Append(@, Ev("addDatabase", TRUE, inv[p].key))])
    /\ UNCHANGED <<remote, nextId, nameCache, lastListing>>

\* config.InvalidateDbNamesCache(); return nil
ReplicateInvalidate(p) ==
    /\ inv[p].pc = "invalidate" /\ inv[p].cmd = "replicate"
    /\ nameCache' = InvalidateDbNamesCache
    /\ Set(p, [inv[p] EXCEPT !.pc = "done", !.out = "ok",
                             !.log = Append(@, Ev("invalidate", TRUE, ""))])
    /\ UNCHANGED <<remote, nextId, databases, lastListing>>

\* --------------------------------------------------------------- listCmd
\* lines 477-484: settings.ReadSettings and getDatabases
ListFetch(p) ==
    /\ Idle(p)
    /\ \E readOk \in BOOLEAN :
        IF ~readOk
        THEN Set(p, [Fresh("list") EXCEPT !.out = "LocalSettingsUnreadable"]) /\ UNCHANGED lastListing
        ELSE \E listOk \in BOOLEAN :
            LET f == [Fresh("list") EXCEPT !.log = <<Ev("list", listOk, "")>>]
            IN IF ~listOk
               THEN Set(p, [f EXCEPT !.out = "RemoteRequestFailed"]) /\ UNCHANGED lastListing
               ELSE Set(p, [f EXCEPT !.pc = "setCache", !.dbs = remote])
                    /\ lastListing' = extractDatabaseNames(remote)
    /\ UNCHANGED <<remote, nextId, databases, nameCache>>

ListSetCacheFromLiveCatalog(p) ==
    /\ inv[p].pc = "setCache" /\ inv[p].cmd = "list"
    /\ nameCache' = SetDbNamesCache(extractDatabaseNames(remote))
    /\ Set(p, [inv[p] EXCEPT !.pc = "done", !.out = "ok", !.names = extractDatabaseNames(remote),
                             !.log = Append(@, Ev("setCache", TRUE, ""))])
    /\ UNCHANGED <<remote, nextId, databases, lastListing>>

\* line 492: settings.SetDbNamesCache(extractDatabaseNames(databases))
ListSetCache(p) ==
    /\ inv[p].pc = "setCache" /\ inv[p].cmd = "list"
    /\ nameCache' = SetDbNamesCache(extractDatabaseNames(inv[p].dbs))
    /\ Set(p, [inv[p] EXCEPT !.pc = "done", !.out = "ok", !.names = extractDatabaseNames(inv[p].dbs),
                             !.log = Append(@, Ev("setCache", TRUE, ""))])
    /\ UNCHANGED <<remote, nextId, databases, lastListing>>

\* ------------------------------------- getDatabaseNames (name completion)
\* lines 78-85: settings.ReadSettings, then the cached names when present
CompleteStart(p) ==
    /\ Idle(p)
    /\ \E readOk \in BOOLEAN :
        IF ~readOk
        THEN \E listOk \in BOOLEAN :
                /\ Set(p, [Fresh("complete") EXCEPT !.out = "ok", !.names = fetchDatabaseNames(listOk, remote),
                                                    !.readOk = FALSE,
                                                    !.log = <<Ev("list", listOk, "")>>])
                /\ lastListing' = IF listOk THEN extractDatabaseNames(remote) ELSE lastListing
        ELSE /\ IF nameCache.present
                THEN Set(p, [Fresh("complete") EXCEPT !.out = "ok", !.names = nameCache.names])
                ELSE Set(p, [Fresh("complete") EXCEPT !.pc = "fetch"])
             /\ UNCHANGED lastListing
    /\ UNCHANGED <<remote, nextId, databases, nameCache>>

\* line 86: names := fetchDatabaseNames(client)
CompleteFetch(p) ==
    /\ inv[p].pc = "fetch"
    /\ \E listOk \in BOOLEAN :
        /\ Set(p, [inv[p] EXCEPT !.pc = "setCache", !.names = fetchDatabaseNames(listOk, remote),
                                 !.log = Append(@, Ev("list", listOk, ""))])
        /\ lastListing' = IF listOk THEN extractDatabaseNames(remote) ELSE lastListing
    /\ UNCHANGED <<remote, nextId, databases, nameCache>>

\* lines 87-88: settings.SetDbNamesCache(names); return names
CompleteSetCache(p) ==
    /\ inv[p].pc = "setCache" /\ inv[p].cmd = "complete"
    /\ nameCache' = SetDbNamesCache(inv[p].names)
    /\ Set(p, [inv[p] EXCEPT !.pc = "done", !.out = "ok", !.log = Append(@, Ev("setCache", TRUE, ""))])
    /\ UNCHANGED <<remote, nextId, databases, lastListing>>

\* ------------------------------------------------------------ destroyCmd
DestroyModeUnconfirmed(instanceFlag, regionFlag, yesFlag, prompt) ==
    IF instanceFlag # "" THEN "instance"
    ELSE IF regionFlag # "" THEN "region"
    ELSE IF prompt = "err" THEN ""
    ELSE "database"

\* lines 265-289: which remote call destroyCmd makes, "" when it makes none
DestroyMode(instanceFlag, regionFlag, yesFlag, prompt) ==
    IF instanceFlag # "" THEN "instance"
    ELSE IF regionFlag # "" THEN "region"
    ELSE IF yesFlag THEN "database"
    ELSE IF prompt = "yes" THEN "database"
    ELSE ""

DestroyStart(p) ==
    /\ Idle(p)
    /\ \E name \in Names, instanceFlag \in {"", "inst"}, regionFlag \in {"", "fra"}, yesFlag \in BOOLEAN :
        \E prompt \in IF instanceFlag = "" /\ regionFlag = "" /\ ~yesFlag THEN {"yes", "no", "err"} ELSE {"none"} :
            LET mode == DestroyMode(instanceFlag, regionFlag, yesFlag, prompt)
                f == [Fresh("destroy") EXCEPT !.name = name, !.instanceFlag = instanceFlag,
                                              !.regionFlag = regionFlag, !.yesFlag = yesFlag,
                                              !.prompt = prompt, !.mode = mode]
            IN IF mode # "" THEN Set(p, [f EXCEPT !.pc = "destroy"])
               ELSE IF prompt = "err" THEN Set(p, [f EXCEPT !.out = "PromptFailed"])
               ELSE Set(p, [f EXCEPT !.out = "ok"])
    /\ UNCHANGED <<remote, nextId, databases, nameCache, lastListing>>

SettingsAfterDestroyPurged(dbmap, dbs, name) ==
    [k \in {j \in DOMAIN dbmap : \A i \in 1..Len(dbs) : dbs[i].Name = name => dbs[i].ID # j} |-> dbmap[k]]

\* the local settings map after one of the three destroy calls: left as it is
SettingsAfterDestroy(dbmap, dbs, name) == dbmap

\* the name cache slot after one of the three destroy calls: left as it is
CacheAfterDestroy(cache) == cache

\* destroyDatabase, destroyDatabaseRegion or destroyDatabaseInstance
DestroyCall(p) ==
    /\ inv[p].pc = "destroy"
    /\ \/ /\ HasName(remote, inv[p].name)
          /\ remote' = IF inv[p].mode = "database" THEN RemoteDestroy(remote, inv[p].name) ELSE remote
          /\ lastListing' = extractDatabaseNames(remote')
          /\ databases' = SettingsAfterDestroy(databases, remote, inv[p].name)
          /\ nameCache' = CacheAfterDestroy(nameCache)
          /\ Set(p, [inv[p] EXCEPT !.pc = "done", !.out = "ok",
                                   !.log = Append(@, Ev("destroy", TRUE, inv[p].mode))])
       \/ /\ Set(p, [inv[p] EXCEPT !.pc = "done", !.out = "RemoteRequestFailed",
                                   !.log = Append(@, Ev("destroy", FALSE, inv[p].mode))])
          /\ UNCHANGED <<remote, lastListing, databases, nameCache>>
    /\ UNCHANGED nextId

Step(p) ==
    \/ CreateStart(p)
    \/ CreateRegion(p)
    \/ CreateDatabase(p)
    \/ CreateInstance(p)
    \/ CreateAddDatabase(p)
    \/ CreateInvalidate(p)
    \/ ReplicateStart(p)
    \/ ReplicateLookup(p)
    \/ ReplicatePost(p)
    \/ ReplicateAddDatabase(p)
    \/ ReplicateInvalidate(p)
    \/ ListFetch(p)
    \/ ListSetCache(p)
    \/ CompleteStart(p)
    \/ CompleteFetch(p)
    \/ CompleteSetCache(p)
    \/ DestroyStart(p)
    \/ DestroyCall(p)

Next == Step(1)

Spec == Init /\ [][Next]_vars

\* two invocations sharing the settings file and the remote, with no lock
\* between them: a list in process 1 interleaved with a create in process 2
NextConc ==
    \/ ListFetch(1)
    \/ ListSetCache(1)
    \/ CreateStart(2)
    \/ CreateRegion(2)
    \/ CreateDatabase(2)
    \/ CreateInstance(2)
    \/ CreateAddDatabase(2)
    \/ CreateInvalidate(2)

SpecConc == Init /\ [][NextConc]_vars

\* replicate alone, started from every content the name cache slot can hold
CacheContents == {AbsentCache} \cup {SetDbNamesCache(names) : names \in {<<>>, <<"a">>, <<"b">>, <<"a", "b">>}}

InitAnyCache ==
    /\ remote \in InitCatalogs
    /\ nextId = Len(remote) + 1
    /\ databases = InitSettings(remote)
    /\ nameCache \in CacheContents
    /\ lastListing = extractDatabaseNames(remote)
    /\ inv = [p \in Procs |-> [Fresh("none") EXCEPT !.pre = [databases |-> InitSettings(remote),
                                   nameCache |-> nameCache, primaries |-> extractDatabaseNames(remote)]]]

NextReplicate ==
    \/ ReplicateStart(1)
    \/ ReplicateLookup(1)
    \/ ReplicatePost(1)
    \/ ReplicateAddDatabase(1)
    \/ ReplicateInvalidate(1)

SpecAnyCache == InitAnyCache /\ [][NextReplicate]_vars
\* ================================================================ claims
Done(p, cmd) == inv[p].cmd = cmd /\ inv[p].pc = "done"
Logged(p, ev) == \E i \in 1..Len(inv[p].log) : inv[p].log[i].ev = ev
LoggedOk(p, ev, ok) == \E i \in 1..Len(inv[p].log) : inv[p].log[i].ev = ev /\ inv[p].log[i].ok = ok

\* C1: NameCache is either absent or equal to the complete list of primary
\* database names the remote held at this client's most recent fetch or
\* mutation; it never holds a partial or unfetched list.
C1_CacheIsLastListing == nameCache.present => nameCache.names = lastListing

\* C2: every create or replicate invocation that changed the remote set of
\* primary databases leaves NameCache absent when it ends.
C2_MutationInvalidates ==
    \A p \in Procs :
        (/\ Done(p, "create") \/ Done(p, "replicate")
         /\ extractDatabaseNames(remote) # inv[p].pre.primaries)
        => ~nameCache.present

\* C3: within one create invocation the side effects occur in the order
\* remote database create, remote instance create, settings write, cache
\* invalidation, and after a failed step no later step is performed.
CreateOrder == <<"dbCreate", "instCreate", "addDatabase", "invalidate">>

C3_CreateOrdered ==
    \A p \in Procs : inv[p].cmd = "create" =>
        LET log == inv[p].log
        IN /\ Len(log) <= Len(CreateOrder)
           /\ \A i \in 1..Len(log) : log[i].ev = CreateOrder[i] /\ (i < Len(log) => log[i].ok)
           /\ (log # <<>> /\ ~log[Len(log)].ok) => inv[p].pc = "done"
           /\ ~Logged(p, "addDatabase") => databases = inv[p].pre.databases
           /\ ~Logged(p, "invalidate") => nameCache = inv[p].pre.nameCache

C3_Witness ==
    /\ Done(1, "create") /\ inv[1].out = "ok" /\ Len(inv[1].log) = 4
    /\ inv[1].pre.nameCache.present /\ ~nameCache.present
    /\ inv[1].key \in DOMAIN databases \ DOMAIN inv[1].pre.databases

\* C4: when the database create succeeds and the instance create fails, the
\* invocation ends with InstanceCreationFailed naming the database, the created
\* database stays in the remote catalog (no rollback call), and no settings
\* entry is written for it.
C4_InstanceFailureLeavesDatabase ==
    \A p \in Procs :
        (Done(p, "create") /\ LoggedOk(p, "dbCreate", TRUE) /\ LoggedOk(p, "instCreate", FALSE))
        => /\ inv[p].out = "InstanceCreationFailed"
           /\ inv[p].errName = inv[p].name
           /\ \E i \in 1..Len(remote) : remote[i] = inv[p].res /\ remote[i].Name = inv[p].name
           /\ Len(inv[p].log) = 2
           /\ databases = inv[p].pre.databases
           /\ inv[p].res.ID \notin DOMAIN databases

C4_Witness ==
    /\ Done(1, "create") /\ inv[1].out = "InstanceCreationFailed"
    /\ LoggedOk(1, "instCreate", FALSE)
    /\ \E i \in 1..Len(remote) : remote[i].ID = inv[1].res.ID

\* C5: a source of Type "logical" is replicated through
\* /v2/databases/{name}/instances, the settings key is the response instance's
\* uuid and the stored Host is the source's Hostname; any other source goes
\* through /v1/databases and key and Host come from the response's database.
C5_ShapeDispatch ==
    \A p \in Procs : (inv[p].cmd = "replicate" /\ Logged(p, "post")) =>
        LET o == inv[p].original
            r == inv[p].resp
            stored == Logged(p, "addDatabase")
        IN /\ o.Name = inv[p].name
           /\ Len(SelectSeq(inv[p].log, LAMBDA e : e.ev = "post")) = 1
           /\ IF o.Type = "logical"
              THEN /\ inv[p].url = <<"v2", "databases", inv[p].name, "instances">>
                   /\ stored => /\ inv[p].key = r.instance.uuid.v
                                /\ databases[inv[p].key].Host = o.Hostname
              ELSE /\ inv[p].url = <<"v1", "databases">>
                   /\ stored => /\ inv[p].key = r.database.DbId.v
                                /\ databases[inv[p].key].Host = r.database.Hostname.v

C5_Witness ==
    /\ Done(1, "replicate") /\ inv[1].out = "ok"
    /\ inv[1].original.Type = "logical" /\ inv[1].name = "b"
    /\ inv[1].url = <<"v2", "databases", "b", "instances">>
    /\ inv[1].key \in DOMAIN databases /\ databases[inv[1].key].Host = "h-1"

\* C6: after a successful replicate the settings map has an entry under the
\* new identifier with the response's username and password and the
\* shape-specific host, every entry under another key is unchanged, and
\* NameCache is absent.
C6_ReplicatePersists ==
    \A p \in Procs : (Done(p, "replicate") /\ inv[p].out = "ok") =>
        LET k == inv[p].key
            r == inv[p].resp
        IN /\ k = IF inv[p].original.Type = "logical" THEN r.instance.uuid.v ELSE r.database.DbId.v
           /\ k \in DOMAIN databases
           /\ databases[k].Username = r.username.v
           /\ databases[k].Password = r.password.v
           /\ databases[k].Host = IF inv[p].original.Type = "logical" THEN inv[p].original.Hostname
                                  ELSE r.database.Hostname.v
           /\ DOMAIN databases = DOMAIN inv[p].pre.databases \cup {k}
           /\ \A j \in DOMAIN inv[p].pre.databases \ {k} : databases[j] = inv[p].pre.databases[j]
           /\ ~nameCache.present

C6_Witness ==
    /\ Done(1, "replicate") /\ inv[1].out = "ok" /\ inv[1].original.Type = "primary"
    /\ inv[1].pre.nameCache.present /\ ~nameCache.present
    /\ inv[1].pre.databases # <<>> /\ inv[1].key \notin DOMAIN inv[1].pre.databases
    /\ databases[inv[1].key].Username = "u"

\* C7: with an empty region catalog (a failed fetch included) every non-empty
\* requested region is accepted by create and replicate; with a non-empty
\* catalog a region that is not a member fails with InvalidRegion before any
\* remote request is issued and without any local state change.
RegionChecked(p) ==
    /\ inv[p].requested # ""
    /\ \/ inv[p].cmd = "create" /\ inv[p].pc # "region"
       \/ inv[p].cmd = "replicate" /\ inv[p].name # ""

C7_RegionValidation ==
    \A p \in Procs : RegionChecked(p) =>
        LET empty == ~inv[p].fetch.ok \/ inv[p].fetch.ids = {}
        IN /\ empty => /\ inv[p].out # "InvalidRegion"
                       /\ inv[p].cmd = "create" =>
                            (inv[p].pc = "dbCreate" \/ (Logged(p, "dbCreate") /\ inv[p].log[1].arg = inv[p].requested))
           /\ (~empty /\ inv[p].requested \notin inv[p].fetch.ids) =>
                /\ inv[p].pc = "done" /\ inv[p].out = "InvalidRegion"
                /\ inv[p].log = <<>>
                /\ databases = inv[p].pre.databases /\ nameCache = inv[p].pre.nameCache
           /\ (~empty /\ inv[p].requested \in inv[p].fetch.ids) => inv[p].out # "InvalidRegion"

C7_Witness ==
    /\ Done(1, "replicate") /\ inv[1].out = "InvalidRegion" /\ inv[1].requested = "xyz"
    /\ inv[1].fetch.ok /\ inv[1].fetch.ids = {"ams", "fra"} /\ inv[1].log = <<>>

\* C8: when no region is requested and the probe fails (network error,
\* undecodable body, or a probed region that fails catalog validation), region
\* resolution returns "ams" and does not fail, and create goes on to the remote
\* database create with region "ams".
ProbeFailed(p) ==
    /\ inv[p].cmd = "create" /\ inv[p].requested = "" /\ inv[p].probe.kind # "none"
    /\ \/ inv[p].probe.kind \in {"neterr", "badjson"}
       \/ /\ inv[p].probe.kind = "ok" /\ inv[p].fetch.ok /\ inv[p].fetch.ids # {}
          /\ inv[p].probe.server \notin inv[p].fetch.ids

C8_ProbeFailureFallsBack ==
    \A p \in Procs : ProbeFailed(p) =>
        /\ inv[p].region = "ams"
        /\ inv[p].out \notin {"InvalidRegion", "LocalSettingsUnreadable", "NameGenerationFailed"}
        /\ \/ inv[p].pc = "dbCreate" /\ inv[p].log = <<>>
           \/ inv[p].log # <<>> /\ inv[p].log[1].ev = "dbCreate" /\ inv[p].log[1].arg = "ams"

C8_Witness ==
    /\ ProbeFailed(1) /\ inv[1].probe.kind = "ok" /\ inv[1].probe.server = "xyz"
    /\ Done(1, "create") /\ inv[1].out = "ok" /\ inv[1].log[1] = Ev("dbCreate", TRUE, "ams")

\* C9: in each of the three probe failure modes a user-visible warning is
\* emitted whenever the resolver falls back to the default region.
C9_FallbackWarns == \A p \in Procs : ProbeFailed(p) => inv[p].warned

\* C10: a replicate response with status 200 that lacks, or mistypes, the
\* username, the password or a shape-specific object, id or hostname ends the
\* invocation with a MalformedResponse error, not a crash, and writes no
\* settings entry.
WellFormed(ty, r) ==
    LET m == IF ty = "logical" THEN r.instance ELSE r.database
    IN /\ r.body = "object" /\ r.username.t = "str" /\ r.password.t = "str" /\ m.t = "obj"
       /\ IF ty = "logical" THEN m.uuid.t = "str" ELSE m.DbId.t = "str" /\ m.Hostname.t = "str"

C10_MalformedIsError ==
    \A p \in Procs :
        (Done(p, "replicate") /\ inv[p].status = 200 /\ ~WellFormed(inv[p].original.Type, inv[p].resp))
        => inv[p].out = "MalformedResponse" /\ databases = inv[p].pre.databases

\* C11: when the live lookup of the replicate source fails or finds no
\* database with that name, replicate fails with NotAuthenticatedOrNotFound and
\* issues no replication request.
LookupMissed(p) ==
    /\ inv[p].cmd = "replicate" /\ Logged(p, "list")
    /\ LoggedOk(p, "list", FALSE) \/ ~HasName(remote, inv[p].name)

C11_LookupFailureStops ==
    \A p \in Procs : LookupMissed(p) =>
        /\ inv[p].pc = "done" /\ inv[p].out = "NotAuthenticatedOrNotFound"
        /\ ~Logged(p, "post") /\ Len(inv[p].log) = 1
        /\ inv[p].url = <<>>

C11_Witness ==
    /\ Done(1, "replicate") /\ LoggedOk(1, "list", TRUE) /\ ~HasName(remote, inv[1].name)
    /\ remote # <<>> /\ inv[1].out = "NotAuthenticatedOrNotFound"

\* C12: a non-2xx status of the replication request ends replicate with
\* RemoteRequestFailed carrying that status, and every failing replicate
\* outcome leaves the settings map and NameCache as they were before.
C12_FailedReplicateKeepsLocalState ==
    \A p \in Procs : Done(p, "replicate") =>
        /\ (Logged(p, "post") /\ inv[p].status # 0 /\ inv[p].status \notin 200..299) =>
                inv[p].out = "RemoteRequestFailed" /\ inv[p].errStatus = inv[p].status
        /\ inv[p].out # "ok" =>
                databases = inv[p].pre.databases /\ nameCache = inv[p].pre.nameCache

C12_Witness ==
    /\ Done(1, "replicate") /\ inv[1].status = 500 /\ inv[1].out = "RemoteRequestFailed"
    /\ inv[1].errStatus = 500 /\ nameCache.present /\ nameCache = inv[1].pre.nameCache

\* C13: the whole-database destroy call is issued only when neither an
\* instance nor a region target is given and the yes flag is set or the prompt
\* was answered yes; a declined or failed confirmation issues no destroy call.
C13_DestroyNeedsConfirmation ==
    \A p \in Procs : inv[p].cmd = "destroy" =>
        /\ (\E i \in 1..Len(inv[p].log) : inv[p].log[i].ev = "destroy" /\ inv[p].log[i].arg = "database") =>
                /\ inv[p].instanceFlag = "" /\ inv[p].regionFlag = ""
                /\ inv[p].yesFlag \/ inv[p].prompt = "yes"
        /\ inv[p].prompt \in {"no", "err"} => inv[p].log = <<>> /\ inv[p].pc = "done"

C13_Witness ==
    /\ Done(1, "destroy") /\ ~inv[1].yesFlag /\ inv[1].prompt = "yes"
    /\ inv[1].log = <<Ev("destroy", TRUE, "database")>> /\ ~HasName(remote, inv[1].name)

\* C14: a destroy invocation in any of its three modes, succeeding or failing,
\* leaves NameCache and the settings map unchanged, and the set of keys of the
\* settings map never shrinks under any sequence of operations.
C14_DestroyKeepsLocalState ==
    /\ [](\A p \in Procs : inv[p].cmd = "destroy" =>
            databases = inv[p].pre.databases /\ nameCache = inv[p].pre.nameCache)
    /\ [][DOMAIN databases \subseteq DOMAIN databases']_vars

C14_Witness ==
    /\ Done(1, "destroy") /\ inv[1].out = "ok" /\ inv[1].mode = "database"
    /\ remote = <<>> /\ DOMAIN databases # {}
    /\ nameCache.present /\ nameCache.names # <<>>

\* C15: no remote call is retried: one create issues the database create at
\* most once and the instance create at most once, one replicate issues the
\* replication POST at most once, whatever the outcome of any call.
Count(p, ev) == Len(SelectSeq(inv[p].log, LAMBDA e : e.ev = ev))

C15_NoRetry ==
    \A p \in Procs :
        /\ Count(p, "dbCreate") <= 1 /\ Count(p, "instCreate") <= 1 /\ Count(p, "post") <= 1
        /\ (\E i \in 1..Len(inv[p].log) : inv[p].log[i].ev \in {"dbCreate", "instCreate", "post"} /\ ~inv[p].log[i].ok)
                => inv[p].pc = "done" /\ inv[p].log[Len(inv[p].log)].ok = FALSE

C15_Witness ==
    /\ Done(1, "create") /\ inv[1].log = <<Ev("dbCreate", FALSE, "fra")>>
    /\ inv[1].out = "RemoteRequestFailed"

\* C16: getDatabaseNames returns the cached list without a catalog call when
\* NameCache is present; when it is absent it calls the catalog exactly once,
\* keeps the names of the databases of Type "primary" in catalog order, stores
\* exactly that list in NameCache and returns it.
PrimaryNames(dbs) ==
    LET kept == SelectSeq(dbs, LAMBDA d : d.Type = "primary")
    IN [i \in 1..Len(kept) |-> kept[i].Name]

C16_FetchOrLoad ==
    \A p \in Procs : (Done(p, "complete") /\ inv[p].readOk) =>
        IF inv[p].pre.nameCache.present
        THEN /\ inv[p].names = inv[p].pre.nameCache.names
             /\ inv[p].log = <<>>
             /\ nameCache = inv[p].pre.nameCache
        ELSE /\ Count(p, "list") = 1
             /\ LoggedOk(p, "list", TRUE) =>
                    /\ inv[p].names = PrimaryNames(remote)
                    /\ nameCache = [present |-> TRUE, names |-> PrimaryNames(remote)]

C16_Witness ==
    /\ Done(1, "complete") /\ inv[1].readOk /\ ~inv[1].pre.nameCache.present
    /\ LoggedOk(1, "list", TRUE) /\ Len(remote) = 2
    /\ inv[1].names = <<"a">> /\ nameCache = [present |-> TRUE, names |-> <<"a">>]

\* C17: two invocations on the same settings are not isolated: a list and a
\* create can interleave so that list's Set of an older listing overwrites
\* create's invalidation, and after both finish NameCache is present and omits
\* a primary database that exists remotely.
BothFinished(p, q) ==
    /\ p # q
    /\ Done(p, "list") /\ inv[p].out = "ok"
    /\ Done(q, "create") /\ inv[q].out = "ok"

C17_CacheAfterRaceIsListsListing ==
    \A p \in Procs, q \in Procs : (BothFinished(p, q) /\ nameCache.present) =>
        /\ nameCache.names = PrimaryNames(inv[p].dbs)
        /\ (\A i \in 1..Len(inv[p].dbs) : inv[p].dbs[i].Name # inv[q].name) =>
                /\ \A i \in 1..Len(nameCache.names) : nameCache.names[i] # inv[q].name
                /\ \E i \in 1..Len(remote) : remote[i].Name = inv[q].name /\ remote[i].Type = "primary"

C17_Witness ==
    /\ BothFinished(1, 2) /\ nameCache.present
    /\ \A i \in 1..Len(nameCache.names) : nameCache.names[i] # inv[2].name
    /\ \E i \in 1..Len(remote) : remote[i].Name = inv[2].name /\ remote[i].Type = "primary"
    /\ Logged(2, "invalidate")

\* C18: the outcome of replicate (found or not, endpoint, stored key and host)
\* is fixed by the remote catalog, the response and the inputs, whatever
\* NameCache holds: the source record is the one fetched live by name.
FirstByName(dbs, name) ==
    dbs[CHOOSE i \in 1..Len(dbs) : dbs[i].Name = name /\ \A j \in 1..(i - 1) : dbs[j].Name # name]

C18_ReplicateIgnoresCache ==
    \A p \in Procs : (inv[p].cmd = "replicate" /\ Logged(p, "list")) =>
        IF LoggedOk(p, "list", TRUE) /\ HasName(remote, inv[p].name)
        THEN LET o == FirstByName(remote, inv[p].name)
             IN /\ inv[p].out # "NotAuthenticatedOrNotFound"
                /\ inv[p].original = o
                /\ inv[p].url = IF o.Type = "logical" THEN <<"v2", "databases", inv[p].name, "instances">>
                                ELSE <<"v1", "databases">>
                /\ Logged(p, "addDatabase") =>
                      /\ inv[p].key = IF o.Type = "logical" THEN inv[p].resp.instance.uuid.v
                                      ELSE inv[p].resp.database.DbId.v
                      /\ databases[inv[p].key].Host = IF o.Type = "logical" THEN o.Hostname
                                                     ELSE inv[p].resp.database.Hostname.v
        ELSE inv[p].out = "NotAuthenticatedOrNotFound" /\ ~Logged(p, "post")

C18_Witness ==
    /\ Done(1, "replicate") /\ inv[1].out = "ok" /\ inv[1].name = "a"
    /\ inv[1].pre.nameCache = [present |-> TRUE, names |-> <<"b">>]

\* C19: the region passed to the remote database create is a non-empty
\* identifier: the requested region, the default "ams", or a probed region
\* that is a member of the region catalog; a probe answer without a Server
\* never leads to a create with an empty region.
C19_CreateRegionUsable ==
    \A p \in Procs : (inv[p].cmd = "create" /\ Logged(p, "dbCreate")) =>
        LET r == inv[p].log[1].arg
        IN /\ r # ""
           /\ \/ r = inv[p].requested
              \/ r = "ams"
              \/ r = inv[p].probe.server /\ inv[p].fetch.ok /\ r \in inv[p].fetch.ids

\* C20: when the catalog call of getDatabaseNames fails on a cache miss, the
\* result is the empty list, no error is propagated, and NameCache stays
\* absent so that a later call fetches again.
C20_FailedFetchLeavesCacheAbsent ==
    \A p \in Procs :
        (Done(p, "complete") /\ inv[p].readOk /\ ~inv[p].pre.nameCache.present /\ LoggedOk(p, "list", FALSE))
        => inv[p].names = <<>> /\ inv[p].out = "ok" /\ ~nameCache.present

====
